---- MODULE Spec2Model ----
(***************************************************************************)
(* QuickDictate: the recording session controller of the App component.    *)
(*                                                                         *)
(* The App component is a single-threaded, event-driven program.  Every    *)
(* action below is one macrotask (a click, a browser or backend event, the *)
(* settling of a promise) together with the microtasks it triggers: code   *)
(* that follows an `await` of an already settled promise, or a `.then`     *)
(* reaction of a promise that has just settled, runs inside the action     *)
(* that settled it, in registration order.                                 *)
(*                                                                         *)
(* Every start (the `else` branch of handleToggleRecording) gets an index  *)
(* i in Recs.  The microphone stream, the AudioContext, the session        *)
(* promise and the audio nodes created by the i-th start carry the index   *)
(* i; a ref holds the index of the object it points to, or NoRef for null. *)
(* The click handler is a closure over the rendered appState and           *)
(* currentTranscription: the stop branch works on the values of the click. *)
(*                                                                         *)
(* Spec is the whole controller.  FnSpec runs the onmessage updater and    *)
(* categorizeNote on their own, on longer texts, more backend answers and  *)
(* several category lists than Spec can afford.  Strings that the code     *)
(* trims or rewrites are sequences of one-character strings.               *)
(***************************************************************************)
EXTENDS Integers, Sequences, FiniteSets, TLC

\* ---- bounds ------------------------------------------------------------
MaxStarts == 2          \* number of start requests in one run
MaxLen == 1             \* length of the transcript buffer
MaxReactions == 1       \* frame sends queued on one pending session promise
FnMaxLen == 4           \* length of the buffer when only fragments arrive
MaxEmail == 5           \* characters typed into the default email field
MaxFrame == 3           \* samples in one audio frame
MaxNotes == 3           \* notes handed to the saved-notes list

Recs == 1..MaxStarts

\* ---- program constants -------------------------------------------------
NoRef == 0              \* a ref whose .current is null

IDLE == "IDLE"
RECORDING == "RECORDING"
PROCESSING == "PROCESSING"
REVIEW == "REVIEW"
AppStates == {IDLE, RECORDING, PROCESSING, REVIEW}

NoError == "null"
MicError == "Could not access microphone. Please grant permission and try again."
DictationError == "An error occurred during dictation."
CategorizeError == "Failed to categorize note. Please try again."

\* strings that the code takes apart (trim, replace) are sequences of
\* one-character strings
Work == <<"W", "o", "r", "k">>
Ideas == <<"I", "d", "e", "a", "s">>
Junk == <<"J", "u", "n", "k">>
userCategories == {Work}            \* settings.categories
FallbackCategory == <<"N", "o", "t", "e", "s">>
NoCategory == <<>>                  \* categorizeNote has not returned yet
\* what the backend may answer: a configured category, something else, or
\* a failure of the call
BackendFailure == <<"<failure>">>
NoResponse == <<"<none>">>          \* generateContent has not settled yet
BackendResponses == {Work, Junk, BackendFailure}

\* fragments the transcription backend delivers
Fragments == {<<"a">>, <<" ">>}

\* the inputs of the runs that exercise onmessage and categorizeNote alone
FnFragments ==
    {<<"a">>, <<".">>, <<".", " ">>, <<" ", "a">>, <<".", " ", ".", " ">>}
CategoryLists == {{Work}, {Work, Ideas}, {Ideas, FallbackCategory}}
FnResponses ==
    {Work, <<" ">> \o Work \o <<"\n">>, Ideas, FallbackCategory, Junk, <<>>,
     BackendFailure}

\* ---- notes, sharing and the local store --------------------------------
NoEmail == <<>>                     \* no address: undefined or ''
DefaultAddress == <<"m", "e", "@", "x", ".", "y">>
OtherAddress == <<"o", "@", "x", ".", "y">>
Recipients == {NoEmail, OtherAddress}   \* the email argument of a share call

\* localStorage.getItem('quickNotesNotes') returns null
Absent == [kind |-> "absent", notes |-> <<>>]

\* a note that an earlier visit saved
StoredNote ==
    [id |-> 0,
     text |-> Work \o <<":", "\n", "\n">> \o <<"a">>,
     category |-> Work,
     emailSent |-> FALSE]

\* ids a delete may be asked for: the stored note, the notes of this visit
\* and one id that no note has
NoteIds == 0..(MaxStarts + 1)

NoRequest ==
    [channel |-> "none", to |-> NoEmail, subject |-> <<>>, body |-> <<>>,
     outcome |-> "none"]
NoCall == [name |-> "none", draft |-> <<>>, email |-> NoEmail, id |-> 0,
           request |-> NoRequest]

VARIABLES
    appState,               \* useState<AppState>
    currentTranscription,   \* useState<string>, a sequence of characters
    currentNote,            \* useState<Note|null>: <<>> or <<[text, category]>>
    error,                  \* useState<string|null>
    sessionPromiseRef,      \* useRef<Promise<LiveSession>|null>
    audioContextRef,        \* useRef<AudioContext|null>
    scriptProcessorRef,     \* useRef<ScriptProcessorNode|null>
    mediaStreamSourceRef,   \* useRef<MediaStreamAudioSourceNode|null>
    apiKey,                 \* process.env.API_KEY is set
    startPc,                \* per start: position of the start branch
    stream,                 \* per start: the MediaStream of getUserMedia
    ctx,                    \* per start: the AudioContext it created
    session,                \* per start: the session promise / LiveSession
    reactions,              \* per start: reactions queued on the pending promise
    pipe,                   \* per start: the audio nodes wired by its onopen
    pipeCtx,                \* per start: the AudioContext those nodes belong to
    stopPc,                 \* per stop: position of the stop branch
    stopSess,               \* per stop: the session promise it awaited
    stopCtx,                \* per stop: the AudioContext whose close it awaits
    stopSnap,               \* per stop: currentTranscription of the click's closure
    lastSend,               \* the last call of sendRealtimeInput
    catCalled,              \* stops that called categorizeNote
    settings,               \* settings.categories, the allowed category list
    backendResponse,        \* what the last generateContent call did
    category,               \* what the last categorizeNote call returned
    newText,                \* onmessage: prev + text, before the replace
    received,               \* onmessage on its own: the fragments, as they came
    closedOnResolve,        \* sessions closed by the reaction the cleanup queued
    savedNotes,             \* useState<Note[]>: the saved notes, newest first
    justEmailed,            \* useState<boolean>
    uuidCount,              \* how many ids crypto.randomUUID has handed out
    isInitialized,          \* useState<boolean>: the load effect has run
    storedNotes,            \* localStorage item 'quickNotesNotes'
    nativeShare,            \* navigator.share exists
    defaultEmail,           \* settings.defaultEmail
    lastCall,               \* the last call of a note handler and what it asked of the browser
    persistDue,             \* the persist effect of the latest render has not run yet
    pcmBlob,                \* the last createBlob call: its frame and its result
    sortedCategories,       \* the last render of SavedNotesList: keys and their order
    onboardingComplete,     \* settings.onboardingComplete
    storedSettings,         \* localStorage item 'quickNotesSettings'
    form,                   \* Onboarding: its useState values and which variant it is
    ignoredClick,           \* a click hit the disabled button
    unmounted               \* the cleanup effect has run

vars == <<appState, currentTranscription, currentNote, error,
          sessionPromiseRef, audioContextRef, scriptProcessorRef,
          mediaStreamSourceRef, apiKey, startPc, stream, ctx, session,
          reactions, pipe, pipeCtx, stopPc, stopSess, stopCtx, stopSnap,
          lastSend, catCalled, settings, backendResponse, category,
          newText, received, closedOnResolve, savedNotes, justEmailed, uuidCount,
          isInitialized, storedNotes, nativeShare, defaultEmail,
          lastCall, persistDue, pcmBlob, sortedCategories,
          onboardingComplete, storedSettings, form,
          ignoredClick, unmounted>>

\* ---- the state as one value, threaded through the handlers --------------
Cur ==
    [appState |-> appState, currentTranscription |-> currentTranscription,
     currentNote |-> currentNote, error |-> error,
     sessionPromiseRef |-> sessionPromiseRef,
     audioContextRef |-> audioContextRef,
     scriptProcessorRef |-> scriptProcessorRef,
     mediaStreamSourceRef |-> mediaStreamSourceRef,
     apiKey |-> apiKey, startPc |-> startPc, stream |-> stream, ctx |-> ctx,
     session |-> session, reactions |-> reactions, pipe |-> pipe,
     pipeCtx |-> pipeCtx, stopPc |-> stopPc, stopSess |-> stopSess,
     stopCtx |-> stopCtx, stopSnap |-> stopSnap, lastSend |-> lastSend,
     catCalled |-> catCalled, settings |-> settings,
     backendResponse |-> backendResponse, category |-> category,
     newText |-> newText, received |-> received,
     closedOnResolve |-> closedOnResolve,
     savedNotes |-> savedNotes,
     justEmailed |-> justEmailed,
     uuidCount |-> uuidCount,
     isInitialized |-> isInitialized,
     storedNotes |-> storedNotes,
     nativeShare |-> nativeShare,
     defaultEmail |-> defaultEmail,
     lastCall |-> lastCall,
     persistDue |-> persistDue,
     pcmBlob |-> pcmBlob,
     sortedCategories |-> sortedCategories,
     onboardingComplete |-> onboardingComplete,
     storedSettings |-> storedSettings,
     form |-> form,
     ignoredClick |-> ignoredClick,
     unmounted |-> unmounted]

Commit(s) ==
    /\ appState' = s.appState
    /\ currentTranscription' = s.currentTranscription
    /\ currentNote' = s.currentNote
    /\ error' = s.error
    /\ sessionPromiseRef' = s.sessionPromiseRef
    /\ audioContextRef' = s.audioContextRef
    /\ scriptProcessorRef' = s.scriptProcessorRef
    /\ mediaStreamSourceRef' = s.mediaStreamSourceRef
    /\ apiKey' = s.apiKey
    /\ startPc' = s.startPc
    /\ stream' = s.stream
    /\ ctx' = s.ctx
    /\ session' = s.session
    /\ reactions' = s.reactions
    /\ pipe' = s.pipe
    /\ pipeCtx' = s.pipeCtx
    /\ stopPc' = s.stopPc
    /\ stopSess' = s.stopSess
    /\ stopCtx' = s.stopCtx
    /\ stopSnap' = s.stopSnap
    /\ lastSend' = s.lastSend
    /\ catCalled' = s.catCalled
    /\ settings' = s.settings
    /\ backendResponse' = s.backendResponse
    /\ category' = s.category
    /\ newText' = s.newText
    /\ received' = s.received
    /\ closedOnResolve' = s.closedOnResolve
    /\ savedNotes' = s.savedNotes
    /\ justEmailed' = s.justEmailed
    /\ uuidCount' = s.uuidCount
    /\ isInitialized' = s.isInitialized
    /\ storedNotes' = s.storedNotes
    /\ nativeShare' = s.nativeShare
    /\ defaultEmail' = s.defaultEmail
    /\ lastCall' = s.lastCall
    /\ persistDue' = s.persistDue
    /\ pcmBlob' = s.pcmBlob
    /\ sortedCategories' = s.sortedCategories
    /\ onboardingComplete' = s.onboardingComplete
    /\ storedSettings' = s.storedSettings
    /\ form' = s.form
    /\ ignoredClick' = s.ignoredClick
    /\ unmounted' = s.unmounted

\* ---- pure helpers ------------------------------------------------------
Whitespace == {" ", "\n"}

\* String.prototype.trim
RECURSIVE TrimLeft(_)
TrimLeft(t) ==
    IF t = <<>> THEN t
    ELSE IF Head(t) \in Whitespace THEN TrimLeft(Tail(t)) ELSE t

RECURSIVE TrimRight(_)
TrimRight(t) ==
    IF t = <<>> THEN t
    ELSE IF t[Len(t)] \in Whitespace
         THEN TrimRight(SubSeq(t, 1, Len(t) - 1)) ELSE t

Trim(t) == TrimRight(TrimLeft(t))

\* a replace without the g flag: only the first ". " becomes ".\n"
RECURSIVE NormalizeFirstOnly(_)
NormalizeFirstOnly(t) ==
    IF Len(t) < 2 THEN t
    ELSE IF t[1] = "." /\ t[2] = " "
         THEN <<".", "\n">> \o Tail(Tail(t))
         ELSE <<t[1]>> \o NormalizeFirstOnly(Tail(t))

\* a replace whose pattern lost its space: every "." becomes ".\n"
RECURSIVE NormalizeEveryPeriod(_)
NormalizeEveryPeriod(t) ==
    IF t = <<>> THEN t
    ELSE IF Head(t) = "."
         THEN <<".", "\n">> \o NormalizeEveryPeriod(Tail(t))
         ELSE <<Head(t)>> \o NormalizeEveryPeriod(Tail(t))

\* newText.replace(/\. /g, '.\n')
RECURSIVE Normalize(_)
Normalize(t) ==
    IF Len(t) < 2 THEN t
    ELSE IF t[1] = "." /\ t[2] = " "
         THEN <<".", "\n">> \o Normalize(Tail(Tail(t)))
         ELSE <<t[1]>> \o Normalize(Tail(t))

\* an updater that runs the replace on the new fragment only
AppendFragmentAlone(prev, text) == prev \o Normalize(text)

\* the setCurrentTranscription updater of onmessage
AppendFragment(prev, text) == Normalize(prev \o text)

\* a categorizeNote that returns the trimmed answer without the includes test
CategorizeNoteRaw(categories, response) ==
    IF response = BackendFailure THEN FallbackCategory
    ELSE Trim(response)

\* categorizeNote once the API key is known to be set, given what
\* generateContent does: the try block and its catch
CategorizeNote(categories, response) ==
    IF response = BackendFailure THEN FallbackCategory
    ELSE LET trimmed == Trim(response)
         IN IF trimmed \in categories THEN trimmed ELSE FallbackCategory

\* no frame has been sent yet
NoSend == [on |-> NoRef, state |-> "none"]

\* a DictationButton that is never disabled
disabledNever == FALSE

\* the disabled prop of the DictationButton
disabled == appState = PROCESSING

\* ---- notes: pure helpers ------------------------------------------------
\* `${currentNote.category}:\n\n${currentNote.text}`
PrefixedText(note) == note.category \o <<":", "\n", "\n">> \o note.text

\* `Note: ${currentNote.category}`
SubjectOf(note) == <<"N", "o", "t", "e", ":", " ">> \o note.category

\* encodeURIComponent, on the characters that occur: one element per
\* character or escape
EscapeOf(c) ==
    CASE c = ":" -> "%3A"
      [] c = " " -> "%20"
      [] c = "\n" -> "%0A"
      [] OTHER -> c

EncodeURIComponent(t) == [n \in 1..Len(t) |-> EscapeOf(t[n])]

\* what the mail client makes of an escaped field
UnescapeOf(c) ==
    CASE c = "%3A" -> ":"
      [] c = "%20" -> " "
      [] c = "%0A" -> "\n"
      [] OTHER -> c

DecodeURIComponent(t) == [n \in 1..Len(t) |-> UnescapeOf(t[n])]

\* window.location.href = `mailto:${to}?subject=...&body=...`
Mailto(to, subject, body) ==
    [channel |-> "mailto", to |-> to,
     subject |-> EncodeURIComponent(subject),
     body |-> EncodeURIComponent(body),
     outcome |-> "navigated"]

\* await navigator.share({ title, text }) in its try/catch: the promise is
\* fulfilled ("shared") or rejected because the user cancelled ("cancelled")
ShareOutcomes == {"shared", "cancelled"}
NativeShare(title, text, outcome) ==
    [channel |-> "share", to |-> NoEmail, subject |-> title, body |-> text,
     outcome |-> outcome]

\* alert("Please set a default email ...")
ConfigAlert ==
    [channel |-> "alert", to |-> NoEmail, subject |-> <<>>, body |-> <<>>,
     outcome |-> "alerted"]

\* JSON.stringify(savedNotes), and JSON.parse(...).map(...) of the load
\* effect; the timestamp of a note is left out of the model
Stringify(notes) == [kind |-> "json", notes |-> notes]
Parse(item) == item.notes

\* notes.filter(note => note.id !== id)
RECURSIVE FilterOut(_, _)
FilterOut(notes, id) ==
    IF notes = <<>> THEN <<>>
    ELSE IF Head(notes).id # id
         THEN <<Head(notes)>> \o FilterOut(Tail(notes), id)
         ELSE FilterOut(Tail(notes), id)

\* a reset that leaves the just-emailed flag as it is
ResetNoteKeepsFlag(s) ==
    [s EXCEPT !.currentNote = <<>>, !.appState = IDLE]

\* resetCurrentNote
ResetNote(s) ==
    [s EXCEPT !.currentNote = <<>>, !.appState = IDLE, !.justEmailed = FALSE]

\* ---- createBlob and encode ----------------------------------------------
\* a sample of the Float32Array, as a multiple of 1/SampleUnit
SampleUnit == 65536
FullScale == SampleUnit             \* the sample 1.0
\* 0, -1/65536, 515/65536, 1.0 and -1.0
Samples == {0, -1, 515, FullScale, -FullScale}
Frames == UNION {[1..n -> Samples] : n \in 0..MaxFrame}

\* data[i] * 32768, exact in float arithmetic, with the fraction cut off as
\* the store into an Int16Array does first
Truncated(sample) ==
    IF sample >= 0 THEN sample \div (SampleUnit \div 32768)
    ELSE -((-sample) \div (SampleUnit \div 32768))

\* int16[i] = data[i] * 32768: the store keeps the value modulo 2^16
ToInt16(sample) == ((Truncated(sample) + 32768) % 65536) - 32768

\* new Uint8Array(int16.buffer): two bytes per sample, low byte first
BytesOf(int16) ==
    [n \in 1..(2 * Len(int16)) |->
        LET u == (int16[(n + 1) \div 2] + 65536) % 65536
        IN IF n % 2 = 1 THEN u % 256 ELSE u \div 256]

\* a Base64 string as a sequence of 6-bit values; Pad stands for "="
Pad == 64

\* btoa of the string of the bytes' characters
Btoa(bytes) ==
    LET len == Len(bytes)
        Byte(n) == IF n <= len THEN bytes[n] ELSE 0
        Group(g) == Byte(3 * g - 2) * 65536 + Byte(3 * g - 1) * 256
                        + Byte(3 * g)
        Given(g) == IF len - 3 * (g - 1) >= 3 THEN 3 ELSE len - 3 * (g - 1)
        Digit(g, k) ==
            CASE k = 1 -> Group(g) \div 262144
              [] k = 2 -> (Group(g) \div 4096) % 64
              [] k = 3 -> (Group(g) \div 64) % 64
              [] OTHER -> Group(g) % 64
    IN [n \in 1..(4 * ((len + 2) \div 3)) |->
           LET g == (n + 3) \div 4
               k == n - 4 * (g - 1)
           IN IF k > Given(g) + 1 THEN Pad ELSE Digit(g, k)]

\* encode
Encode(bytes) == Btoa(bytes)

\* the bytes a receiver reads out of the Base64 string
Atob(digits) ==
    LET groups == Len(digits) \div 4
        Pads == Cardinality({n \in 1..Len(digits) : digits[n] = Pad})
        Value(n) == IF digits[n] = Pad THEN 0 ELSE digits[n]
        Group(g) == Value(4 * g - 3) * 262144 + Value(4 * g - 2) * 4096
                        + Value(4 * g - 1) * 64 + Value(4 * g)
    IN [n \in 1..(3 * groups - Pads) |->
           LET g == (n + 2) \div 3
               k == n - 3 * (g - 1)
           IN CASE k = 1 -> Group(g) \div 65536
                [] k = 2 -> (Group(g) \div 256) % 256
                [] OTHER -> Group(g) % 256]

\* the 16-bit samples a receiver reads out of the bytes
Int16Of(bytes) ==
    [n \in 1..(Len(bytes) \div 2) |->
        LET u == bytes[2 * n - 1] + 256 * bytes[2 * n]
        IN IF u >= 32768 THEN u - 65536 ELSE u]

\* createBlob(data).data
CreateBlob(data) ==
    Encode(BytesOf([n \in 1..Len(data) |-> ToInt16(data[n])]))

\* ---- SavedNotesList -------------------------------------------------------
ToDo == <<"T", "o", "-", "d", "o">>
FollowUps == <<"F", "o", "l", "l", "o", "w", " ", "u", "p", "s">>
DefaultToDo == <<"T", "o", "-", "D", "o">>
categoryOrder == <<ToDo, FollowUps, Ideas, FallbackCategory>>

\* categories of the notes handed to the list: two of categoryOrder and two
\* of the default settings that are not in it
ListCategories == {ToDo, Ideas, Work, DefaultToDo}
NoteLists ==
    UNION {{[n \in 1..len |->
                [id |-> n, text |-> PrefixedText([category |-> cs[n],
                                                  text |-> <<"a">>]),
                 category |-> cs[n], emailSent |-> FALSE]] :
            cs \in [1..len -> ListCategories]} : len \in 0..MaxNotes}

\* Array.prototype.sort is free in how it calls the comparator: an engine
\* that asks about (earlier, later) and moves the later one forward on a
\* positive answer, or one that asks about (later, earlier) and moves the
\* later one forward on a negative answer
Engines == {"earlierFirst", "laterFirst"}

\* categoryOrder.indexOf(c)
IndexOf(c) ==
    IF \E n \in 1..Len(categoryOrder) : categoryOrder[n] = c
    THEN (CHOOSE n \in 1..Len(categoryOrder) : categoryOrder[n] = c) - 1
    ELSE -1

\* the comparator handed to sort
Compare(a, b) ==
    IF IndexOf(a) = -1 THEN 1
    ELSE IF IndexOf(b) = -1 THEN -1
    ELSE IndexOf(a) - IndexOf(b)

\* Object.keys(groupedNotes): the categories in the order the reduce met them
RECURSIVE GroupedKeys(_)
GroupedKeys(notes) ==
    IF notes = <<>> THEN <<>>
    ELSE LET front == GroupedKeys(SubSeq(notes, 1, Len(notes) - 1))
             c == notes[Len(notes)].category
         IN IF \E n \in 1..Len(front) : front[n] = c THEN front
            ELSE front \o <<c>>

\* one insertion of the engine's sort
RECURSIVE Insert(_, _, _)
Insert(sorted, key, engine) ==
    IF sorted = <<>> THEN <<key>>
    ELSE LET last == sorted[Len(sorted)]
             forward == IF engine = "earlierFirst"
                        THEN Compare(last, key) > 0
                        ELSE Compare(key, last) < 0
         IN IF forward
            THEN Insert(SubSeq(sorted, 1, Len(sorted) - 1), key, engine)
                     \o <<last>>
            ELSE sorted \o <<key>>

\* keys.sort(comparator) on the engine
RECURSIVE SortKeys(_, _)
SortKeys(keys, engine) ==
    IF keys = <<>> THEN <<>>
    ELSE Insert(SortKeys(SubSeq(keys, 1, Len(keys) - 1), engine),
                keys[Len(keys)], engine)

\* ---- Onboarding ----------------------------------------------------------
\* characters typed into the email field
EmailChars == {"a", "@", ".", " "}

\* defaultCategories of the two Onboarding components: the documented one
\* hands over its whole list, the other one what the user selected
FixedCategories == <<Ideas, FollowUps, ToDo, FallbackCategory>>
SelectableCategories == {Work, Ideas}
Variants == {"fixed", "select"}

NoFormError == ""
EmailFormError == "Please enter a valid default email address."
CategoryFormError == "Please select at least one category."

\* the form before anything is typed
EmptyForm(variant) ==
    [variant |-> variant, defaultEmail |-> <<>>, selectedCategories |-> <<>>,
     error |-> NoFormError]

\* JSON.stringify(finalSettings); otherEmails is left out of the model
StringifySettings(email, categories) ==
    [kind |-> "json", defaultEmail |-> email, categories |-> categories,
     onboardingComplete |-> TRUE]

\* localStorage.getItem('quickNotesSettings') returns null
NoStoredSettings ==
    [kind |-> "absent", defaultEmail |-> <<>>, categories |-> {},
     onboardingComplete |-> FALSE]

\* the places a match of /^\S+@\S+\.\S+$/ can be in after one more
\* character: 1 inside the first \S+, 2 behind the @, 3 inside the second
\* \S+, 4 behind the period, 5 inside the third \S+
RegexStep(places, c) ==
    IF c \in Whitespace THEN {}
    ELSE {q \in 1..5 :
             \/ q = 1 /\ (0 \in places \/ 1 \in places)
             \/ q = 2 /\ c = "@" /\ 1 \in places
             \/ q = 3 /\ (2 \in places \/ 3 \in places)
             \/ q = 4 /\ c = "." /\ 3 \in places
             \/ q = 5 /\ (4 \in places \/ 5 \in places)}

RECURSIVE RegexRun(_, _)
RegexRun(places, text) ==
    IF text = <<>> THEN places
    ELSE RegexRun(RegexStep(places, Head(text)), Tail(text))

\* a test that wants an @ but no period: /^\S+@\S+$/
RegexTestNoPeriod(text) == 3 \in RegexRun({0}, text)

\* /^\S+@\S+\.\S+$/.test(text)
RegexTest(text) == 5 \in RegexRun({0}, text)

\* the elements of a sequence
Range(seq) == {seq[n] : n \in 1..Len(seq)}

\* handleOnboardingComplete
OnboardingComplete(s, email, categories) ==
    [s EXCEPT !.settings = Range(categories),
              !.defaultEmail = email,
              !.onboardingComplete = TRUE,
              !.storedSettings = StringifySettings(email, Range(categories))]

\* handleSubmit of the Onboarding component
Submit(s) ==
    IF s.form.defaultEmail = <<>> \/ ~RegexTest(s.form.defaultEmail)
    THEN [s EXCEPT !.form.error = EmailFormError]
    ELSE IF s.form.variant = "select" /\ Len(s.form.selectedCategories) = 0
    THEN [s EXCEPT !.form.error = CategoryFormError]
    ELSE OnboardingComplete([s EXCEPT !.form.error = NoFormError],
                            s.form.defaultEmail,
                            IF s.form.variant = "select"
                            THEN s.form.selectedCategories
                            ELSE FixedCategories)

\* ---- Init ---------------------------------------------------------------
InitApp ==
    /\ appState = IDLE
    /\ currentTranscription = <<>>
    /\ currentNote = <<>>
    /\ error = NoError
    /\ sessionPromiseRef = NoRef
    /\ audioContextRef = NoRef
    /\ scriptProcessorRef = NoRef
    /\ mediaStreamSourceRef = NoRef
    /\ apiKey \in BOOLEAN
    /\ startPc = [i \in Recs |-> "none"]
    /\ stream = [i \in Recs |-> "none"]
    /\ ctx = [i \in Recs |-> "none"]
    /\ session = [i \in Recs |-> "none"]
    /\ reactions = [i \in Recs |-> <<>>]
    /\ pipe = [i \in Recs |-> "none"]
    /\ pipeCtx = [i \in Recs |-> NoRef]
    /\ stopPc = [i \in Recs |-> "none"]
    /\ stopSess = [i \in Recs |-> NoRef]
    /\ stopCtx = [i \in Recs |-> NoRef]
    /\ stopSnap = [i \in Recs |-> <<>>]
    /\ lastSend = NoSend
    /\ catCalled = {}
    /\ backendResponse = NoResponse
    /\ category = NoCategory
    /\ newText = <<>>
    /\ received = <<>>
    /\ closedOnResolve = {}
    /\ ignoredClick = FALSE
    /\ unmounted = FALSE

\* createBlob has not been called and SavedNotesList has rendered nothing
InitUtil ==
    /\ pcmBlob = [frame |-> <<>>, data |-> <<>>]
    /\ sortedCategories = [engine |-> "none", notes |-> <<>>, sorted |-> <<>>]

\* the note state once the load effect has run on an empty store
InitLoaded ==
    /\ savedNotes = <<>>
    /\ justEmailed = FALSE
    /\ uuidCount = 0
    /\ isInitialized = TRUE
    /\ persistDue = FALSE
    /\ storedNotes = Stringify(<<>>)
    /\ nativeShare = FALSE
    /\ defaultEmail = DefaultAddress
    /\ lastCall = NoCall

\* the user has gone through the onboarding: the form is gone
InitOnboarded ==
    /\ onboardingComplete = TRUE
    /\ storedSettings = StringifySettings(defaultEmail, settings)
    /\ form = EmptyForm("fixed")

Init ==
    /\ settings = userCategories
    /\ InitApp
    /\ InitLoaded
    /\ InitUtil
    /\ InitOnboarded

\* a first visit: the default settings, nothing in the store, the
\* Onboarding component of either variant on the screen
OnboardInit ==
    /\ settings = userCategories
    /\ InitApp
    /\ InitUtil
    /\ savedNotes = <<>>
    /\ justEmailed = FALSE
    /\ uuidCount = 0
    /\ isInitialized = TRUE
    /\ persistDue = FALSE
    /\ storedNotes = Stringify(<<>>)
    /\ nativeShare = FALSE
    /\ defaultEmail = NoEmail
    /\ lastCall = NoCall
    /\ onboardingComplete = FALSE
    /\ storedSettings = NoStoredSettings
    /\ form \in {EmptyForm(variant) : variant \in Variants}

\* the first render: nothing is loaded yet; the store holds what an earlier
\* visit left, the browser may offer navigator.share, and the settings may
\* lack a default email
NoteInit ==
    /\ settings = userCategories
    /\ InitApp
    /\ InitUtil
    /\ savedNotes = <<>>
    /\ justEmailed = FALSE
    /\ uuidCount = 0
    /\ apiKey
    /\ isInitialized = FALSE
    /\ persistDue = FALSE
    /\ storedNotes \in {Absent, Stringify(<<>>), Stringify(<<StoredNote>>)}
    /\ nativeShare \in BOOLEAN
    /\ defaultEmail \in {NoEmail, DefaultAddress}
    /\ lastCall = NoCall
    /\ InitOnboarded

\* the user went through onboarding with some category list
FnInit ==
    /\ settings \in CategoryLists
    /\ InitApp
    /\ InitLoaded
    /\ InitUtil
    /\ InitOnboarded

\* ---- the handlers, as functions of the state ----------------------------
NumStarts(s) == Cardinality({i \in Recs : s.startPc[i] # "none"})

\* a stop that was requested while the ref pointed at session j
StopBegunFor(s, j) == \E i \in Recs : s.stopPc[i] # "none" /\ s.stopSess[i] = j

\* session.close()
SessionClose(s, j) ==
    IF s.session[j] = "open"
    THEN [s EXCEPT !.session[j] = "closing"]
    ELSE s

\* session.sendRealtimeInput({ media: pcmBlob }), tagged with the state the
\* session is in when the call is made
SendRealtimeInput(s, j) ==
    LET tag == IF s.session[j] # "open" THEN "closed"
               ELSE IF StopBegunFor(s, j) THEN "stopping"
               ELSE "live"
    IN [s EXCEPT !.lastSend = [on |-> j, state |-> tag]]

\* the stop branch testing the transcript without trimming it
StopEvaluateNoTrim(s, i) ==
    IF Len(s.stopSnap[i]) > 0
    THEN IF s.apiKey
         THEN [s EXCEPT !.catCalled = @ \cup {i},
                        !.stopPc[i] = "categorizing"]
         ELSE [s EXCEPT !.catCalled = @ \cup {i},
                        !.error = CategorizeError,
                        !.appState = IDLE,
                        !.currentTranscription = <<>>,
                        !.stopPc[i] = "done"]
    ELSE [s EXCEPT !.currentTranscription = <<>>,
                   !.appState = IDLE,
                   !.stopPc[i] = "done"]

\* the stop branch with a catch that does not set the error
StopEvaluateSilent(s, i) ==
    IF Len(Trim(s.stopSnap[i])) > 0
    THEN IF s.apiKey
         THEN [s EXCEPT !.catCalled = @ \cup {i},
                        !.stopPc[i] = "categorizing"]
         ELSE [s EXCEPT !.catCalled = @ \cup {i},
                        !.appState = IDLE,
                        !.currentTranscription = <<>>,
                        !.stopPc[i] = "done"]
    ELSE [s EXCEPT !.currentTranscription = <<>>,
                   !.appState = IDLE,
                   !.stopPc[i] = "done"]

\* stop branch, from "Process the transcribed text if it's not empty" on
StopEvaluate(s, i) ==
    IF Len(Trim(s.stopSnap[i])) > 0
    THEN IF s.apiKey
         THEN [s EXCEPT !.catCalled = @ \cup {i},
                        !.stopPc[i] = "categorizing"]
         ELSE \* categorizeNote throws: catch and finally run at once
              [s EXCEPT !.catCalled = @ \cup {i},
                        !.error = CategorizeError,
                        !.appState = IDLE,
                        !.currentTranscription = <<>>,
                        !.stopPc[i] = "done"]
    ELSE [s EXCEPT !.currentTranscription = <<>>,
                   !.appState = IDLE,
                   !.stopPc[i] = "done"]

\* an audio part that closes the context whatever its state: close() on a
\* closed context rejects and the await throws
StopAudioClosesAgain(s, i) ==
    IF /\ s.audioContextRef # NoRef
       /\ s.scriptProcessorRef # NoRef
       /\ s.mediaStreamSourceRef # NoRef
    THEN LET s1 == [s EXCEPT !.pipe[s.scriptProcessorRef] = "disconnected"]
             s2 == [s1 EXCEPT !.pipe[s.mediaStreamSourceRef] = "disconnected"]
             k == s.audioContextRef
         IN IF s2.ctx[k] # "closed"
            THEN [s2 EXCEPT !.ctx[k] = "closing",
                            !.stopCtx[i] = k,
                            !.stopPc[i] = "awaitAudioClose"]
            ELSE [s2 EXCEPT !.stopPc[i] = "threw"]
    ELSE StopEvaluate(s, i)

\* stop branch, the audio pipeline part
StopAudio(s, i) ==
    IF /\ s.audioContextRef # NoRef
       /\ s.scriptProcessorRef # NoRef
       /\ s.mediaStreamSourceRef # NoRef
    THEN LET s1 == [s EXCEPT !.pipe[s.scriptProcessorRef] = "disconnected"]
             s2 == [s1 EXCEPT !.pipe[s.mediaStreamSourceRef] = "disconnected"]
             k == s.audioContextRef
         IN IF s2.ctx[k] # "closed"
            THEN [s2 EXCEPT !.ctx[k] = "closing",
                            !.stopCtx[i] = k,
                            !.stopPc[i] = "awaitAudioClose"]
            ELSE StopEvaluate(s2, i)
    ELSE StopEvaluate(s, i)

\* stop branch, what follows `await sessionPromiseRef.current`
StopAfterSession(s, i) ==
    LET s1 == SessionClose(s, s.stopSess[i])
        s2 == [s1 EXCEPT !.sessionPromiseRef = NoRef]
    IN StopAudio(s2, i)

\* one reaction of a session promise that has just been fulfilled
React(s, j, r) ==
    CASE r.kind = "send" -> SendRealtimeInput(s, j)
      [] r.kind = "stop" -> StopAfterSession(s, r.stop)
      [] r.kind = "teardown" ->
            [SessionClose(s, j) EXCEPT !.closedOnResolve = @ \cup {j}]

RECURSIVE RunReactions(_, _, _)
RunReactions(s, j, rs) ==
    IF rs = <<>> THEN s
    ELSE RunReactions(React(s, j, Head(rs)), j, Tail(rs))

\* the onopen callback of session j
OnOpen(s, j) ==
    LET k == s.audioContextRef
    IN IF s.ctx[k] = "closed"
       THEN s    \* createMediaStreamSource throws on a closed context
       ELSE [s EXCEPT !.mediaStreamSourceRef = j,
                      !.scriptProcessorRef = j,
                      !.pipe[j] = "connected",
                      !.pipeCtx[j] = k]

\* stops whose `await audioContextRef.current.close()` has just resolved
RECURSIVE ResumeStops(_, _, _)
ResumeStops(s, k, i) ==
    IF i > MaxStarts THEN s
    ELSE IF s.stopPc[i] = "awaitAudioClose" /\ s.stopCtx[i] = k
         THEN ResumeStops(StopEvaluate(s, i), k, i + 1)
         ELSE ResumeStops(s, k, i + 1)

\* ---- actions ----------------------------------------------------------
\* click on the DictationButton while it is disabled: no handler runs
ClickDisabled ==
    /\ ~unmounted
    /\ disabled
    /\ Commit([Cur EXCEPT !.ignoredClick = TRUE])

\* a start that leaves the error slot as it is
StartClickKeepsError ==
    /\ ~unmounted
    /\ ~disabled
    /\ appState # RECORDING
    /\ NumStarts(Cur) < MaxStarts
    /\ LET i == NumStarts(Cur) + 1
       IN Commit([Cur EXCEPT !.currentNote = <<>>,
                             !.currentTranscription = <<>>,
                             !.appState = RECORDING,
                             !.startPc[i] = "awaitMic"])

\* handleToggleRecording, start branch up to `await getUserMedia`
StartClick ==
    /\ ~unmounted
    /\ ~disabled
    /\ appState # RECORDING
    /\ NumStarts(Cur) < MaxStarts
    /\ LET i == NumStarts(Cur) + 1
       IN Commit([Cur EXCEPT !.error = NoError,
                             !.currentNote = <<>>,
                             !.currentTranscription = <<>>,
                             !.appState = RECORDING,
                             !.startPc[i] = "awaitMic"])

\* start branch after getUserMedia resolved
MicGranted(i) ==
    /\ startPc[i] = "awaitMic"
    /\ Commit([Cur EXCEPT !.stream[i] = "live",
                          !.ctx[i] = "running",
                          !.audioContextRef = i,
                          !.session[i] = "pending",
                          !.sessionPromiseRef = i,
                          !.startPc[i] = "done"])

\* a catch block that leaves the state as it is
MicDeniedKeepsState(i) ==
    /\ startPc[i] = "awaitMic"
    /\ Commit([Cur EXCEPT !.error = MicError,
                          !.startPc[i] = "failed"])

\* start branch after getUserMedia rejected: the catch block
MicDenied(i) ==
    /\ startPc[i] = "awaitMic"
    /\ Commit([Cur EXCEPT !.error = MicError,
                          !.appState = IDLE,
                          !.startPc[i] = "failed"])

\* handleToggleRecording, stop branch up to its first suspension
StopClick ==
    /\ ~unmounted
    /\ ~disabled
    /\ appState = RECORDING
    /\ LET i == NumStarts(Cur)
           j == sessionPromiseRef
           s1 == [Cur EXCEPT !.appState = PROCESSING,
                             !.stopSnap[i] = currentTranscription,
                             !.stopSess[i] = j,
                             !.stopPc[i] = "awaitSession"]
       IN IF j = NoRef THEN Commit(StopAudio(s1, i))
          ELSE IF session[j] = "pending"
          THEN Commit([s1 EXCEPT !.reactions[j] =
                          Append(@, [kind |-> "stop", stop |-> i])])
          ELSE IF session[j] = "rejected"
          THEN Commit([s1 EXCEPT !.stopPc[i] = "threw"])
          ELSE Commit(StopAfterSession(s1, i))

\* the session promise of start j is fulfilled: onopen, then its reactions
SessionOpen(j) ==
    /\ session[j] = "pending"
    /\ LET s1 == OnOpen([Cur EXCEPT !.session[j] = "open"], j)
           s2 == [s1 EXCEPT !.reactions[j] = <<>>]
       IN Commit(RunReactions(s2, j, reactions[j]))

\* the session promise of start j is rejected: an awaiting stop throws
SessionRejects(j) ==
    /\ session[j] = "pending"
    /\ Commit([Cur EXCEPT
          !.session[j] = "rejected",
          !.reactions[j] = <<>>,
          !.stopPc = [i \in Recs |->
                        IF \E n \in 1..Len(reactions[j]) :
                              reactions[j][n] = [kind |-> "stop", stop |-> i]
                        THEN "threw" ELSE stopPc[i]]])

\* onmessage with an inputTranscription
Fragment(j, text) ==
    /\ session[j] = "open"
    /\ Len(currentTranscription) + Len(text) <= MaxLen
    /\ Commit([Cur EXCEPT !.currentTranscription = AppendFragment(@, text)])

\* onerror
SessionError(j) ==
    /\ session[j] = "open"
    /\ Commit([Cur EXCEPT !.error = DictationError,
                          !.appState = IDLE])

\* onclose: the connection of session j is gone
OnClose(j) ==
    /\ session[j] \in {"open", "closing"}
    /\ Commit([Cur EXCEPT !.session[j] = "closed",
                          !.stream[j] = "stopped"])

\* onaudioprocess of the script processor wired by onopen of start p
AudioProcess(p) ==
    /\ pipe[p] = "connected"
    /\ ctx[pipeCtx[p]] \in {"running", "closing"}
    /\ sessionPromiseRef # NoRef
    /\ LET j == sessionPromiseRef
       IN IF session[j] = "pending"
          THEN /\ Len(reactions[j]) < MaxReactions
               /\ Commit([Cur EXCEPT !.reactions[j] =
                             Append(@, [kind |-> "send", stop |-> NoRef])])
          ELSE /\ session[j] # "rejected"
               /\ Commit(SendRealtimeInput(Cur, j))

\* audioContext.close() of context k completes
CtxClosed(k) ==
    /\ ctx[k] = "closing"
    /\ Commit(ResumeStops([Cur EXCEPT !.ctx[k] = "closed"], k, 1))

\* a stop whose finally block does not clear the buffer
CategorizeReturnsKeepsBuffer(i, response) ==
    /\ stopPc[i] = "categorizing"
    /\ Commit([Cur EXCEPT
          !.backendResponse = response,
          !.category = CategorizeNote(settings, response),
          !.currentNote = <<[text |-> stopSnap[i],
                             category |-> CategorizeNote(settings, response)]>>,
          !.appState = REVIEW,
          !.stopPc[i] = "done"])

\* generateContent of stop i settles and `await categorizeNote(...)` resolves
CategorizeReturns(i, response) ==
    /\ stopPc[i] = "categorizing"
    /\ Commit([Cur EXCEPT
          !.backendResponse = response,
          !.category = CategorizeNote(settings, response),
          !.currentNote = <<[text |-> stopSnap[i],
                             category |-> CategorizeNote(settings, response)]>>,
          !.appState = REVIEW,
          !.currentTranscription = <<>>,
          !.stopPc[i] = "done"])

\* resetCurrentNote (onDiscard of the CurrentNoteCard)
ResetCurrentNote ==
    /\ ~unmounted
    /\ appState = REVIEW
    /\ currentNote # <<>>
    /\ Commit(ResetNote(Cur))

\* a cleanup that closes an open session but drops a pending one
UnmountSkipsPending ==
    /\ ~unmounted
    /\ LET j == sessionPromiseRef
           k == audioContextRef
           s1 == IF j = NoRef THEN Cur ELSE SessionClose(Cur, j)
           s2 == IF k # NoRef /\ s1.ctx[k] # "closed"
                 THEN [s1 EXCEPT !.ctx[k] = "closing"]
                 ELSE s1
       IN Commit([s2 EXCEPT !.unmounted = TRUE])

\* the cleanup function of the unmount effect
Unmount ==
    /\ ~unmounted
    /\ LET j == sessionPromiseRef
           k == audioContextRef
           s1 == IF j = NoRef THEN Cur
                 ELSE IF session[j] = "pending"
                 THEN [Cur EXCEPT !.reactions[j] =
                          Append(@, [kind |-> "teardown", stop |-> NoRef])]
                 ELSE SessionClose(Cur, j)
           s2 == IF k # NoRef /\ s1.ctx[k] # "closed"
                 THEN [s1 EXCEPT !.ctx[k] = "closing"]
                 ELSE s1
       IN Commit([s2 EXCEPT !.unmounted = TRUE])

Next ==
    \/ ClickDisabled
    \/ StartClick
    \/ StopClick
    \/ ResetCurrentNote
    \/ Unmount
    \/ \E i \in Recs : MicGranted(i)
    \/ \E i \in Recs : MicDenied(i)
    \/ \E j \in Recs : SessionOpen(j)
    \/ \E j \in Recs : SessionRejects(j)
    \/ \E j \in Recs : SessionError(j)
    \/ \E j \in Recs : OnClose(j)
    \/ \E j \in Recs, text \in Fragments : Fragment(j, text)
    \/ \E p \in Recs : AudioProcess(p)
    \/ \E k \in Recs : CtxClosed(k)
    \/ \E i \in Recs, r \in BackendResponses : CategorizeReturns(i, r)

Spec == Init /\ [][Next]_vars

\* ---- the recording controller when every awaited operation settles -------
\* getUserMedia, the session promise, AudioContext.close() and the
\* categorizer call of every start and stop settle, by resolving or by
\* rejecting; the clicks, the fragments, the errors and the teardown are left
\* to the user and the backend.
LiveSpec ==
    /\ Init
    /\ [][Next]_vars
    /\ \A i \in Recs :
          /\ WF_vars(MicGranted(i) \/ MicDenied(i))
          /\ WF_vars(SessionOpen(i) \/ SessionRejects(i))
          /\ WF_vars(CtxClosed(i))
          /\ WF_vars(\E r \in BackendResponses : CategorizeReturns(i, r))


\* ---- onmessage and categorizeNote on their own ---------------------------
\* onmessage with an inputTranscription, whatever the session does
FragmentArrives(text) ==
    /\ Len(currentTranscription) + Len(text) <= FnMaxLen
    /\ Commit([Cur EXCEPT !.newText = currentTranscription \o text,
                          !.received = @ \o text,
                          !.currentTranscription = AppendFragment(@, text)])

\* one call of categorizeNote with the configured list
CategorizeCall(response) ==
    /\ apiKey
    /\ Commit([Cur EXCEPT !.backendResponse = response,
                          !.category = CategorizeNote(settings, response)])

\* ---- the note handlers ---------------------------------------------------
\* a persist effect that writes whether or not the load has run
PersistNotesUnguarded(s) ==
    [s EXCEPT !.storedNotes = Stringify(s.savedNotes)]

\* the persist effect, run with the state of the render s
PersistNotes(s) ==
    IF s.isInitialized
    THEN [s EXCEPT !.storedNotes = Stringify(s.savedNotes)]
    ELSE s

Called(s, name, email, id, request) ==
    [name |-> name, draft |-> s.currentNote, email |-> email, id |-> id,
     request |-> request]

\* a save that takes the id handed out last
SaveNoteReusesId(s) ==
    IF s.currentNote # <<>>
    THEN LET d == s.currentNote[1]
             newNote == [id |-> s.uuidCount,
                         text |-> PrefixedText(d),
                         category |-> d.category,
                         emailSent |-> s.justEmailed]
         IN ResetNote([s EXCEPT !.savedNotes = <<newNote>> \o @,
                                !.uuidCount = @ + 1])
    ELSE s

\* handleSaveNote; crypto.randomUUID() hands out an id it never gave before
SaveNote(s) ==
    IF s.currentNote # <<>>
    THEN LET d == s.currentNote[1]
             newNote == [id |-> s.uuidCount + 1,
                         text |-> PrefixedText(d),
                         category |-> d.category,
                         emailSent |-> s.justEmailed]
         IN ResetNote([s EXCEPT !.savedNotes = <<newNote>> \o @,
                                !.uuidCount = @ + 1])
    ELSE s

\* a delete that drops the newest note whatever the id
DeleteNewest(s, id) ==
    [s EXCEPT !.savedNotes = IF @ = <<>> THEN @ ELSE Tail(@)]

\* handleDeleteSavedNote
DeleteSavedNote(s, id) ==
    [s EXCEPT !.savedNotes = FilterOut(@, id)]

\* an email handler that marks the saved notes as sent
EmailNoteMarksSaved(s, email) ==
    IF s.currentNote = <<>> THEN [s EXCEPT !.lastCall.request = NoRequest]
    ELSE [s EXCEPT !.justEmailed = TRUE,
                   !.savedNotes = [n \in 1..Len(@) |->
                                      [@[n] EXCEPT !.emailSent = TRUE]]]

\* handleEmailNote of the documented App
EmailNote(s, email) ==
    IF s.currentNote = <<>> THEN [s EXCEPT !.lastCall.request = NoRequest]
    ELSE LET d == s.currentNote[1]
             subject == SubjectOf(d)
             body == PrefixedText(d)
             recipient == IF email # NoEmail THEN email ELSE s.defaultEmail
         IN [s EXCEPT !.justEmailed = TRUE,
                      !.lastCall.request =
                          IF recipient # NoEmail
                          THEN Mailto(recipient, subject, body)
                          ELSE ConfigAlert]

\* handleShareNote of the variant with the Web Share API
ShareNote(s, email, outcome) ==
    IF s.currentNote = <<>> THEN [s EXCEPT !.lastCall.request = NoRequest]
    ELSE LET d == s.currentNote[1]
             subject == SubjectOf(d)
             body == d.text
         IN [s EXCEPT !.justEmailed = TRUE,
                      !.lastCall.request =
                          IF email # NoEmail
                          THEN Mailto(email, subject, body)
                          ELSE IF s.nativeShare
                          THEN NativeShare(subject, body, outcome)
                          ELSE IF s.defaultEmail # NoEmail
                          THEN Mailto(s.defaultEmail, subject, body)
                          ELSE ConfigAlert]

\* ---- the note actions ----------------------------------------------------
\* the render is committed and its effects have run
Ready == isInitialized /\ ~persistDue /\ ~unmounted

\* the effects of the first render: the load effect reads the store, then
\* the persist effect runs with the state of that render
LoadEffect ==
    /\ ~isInitialized
    /\ ~unmounted
    /\ LET item == storedNotes
           s1 == PersistNotes(Cur)
       IN Commit([s1 EXCEPT
              !.savedNotes = IF item # Absent THEN Parse(item) ELSE @,
              !.isInitialized = TRUE,
              !.persistDue = TRUE])

\* the persist effect of the render that follows the load
PersistEffect ==
    /\ persistDue
    /\ ~unmounted
    /\ Commit([PersistNotes(Cur) EXCEPT !.persistDue = FALSE])

\* onSave, with the persist effect of the render it causes
HandleSaveNote ==
    /\ Ready
    /\ LET s1 == [Cur EXCEPT !.lastCall = Called(Cur, "save", NoEmail, 0, NoRequest)]
           s2 == SaveNote(s1)
       IN Commit(IF s2.savedNotes # s1.savedNotes THEN PersistNotes(s2) ELSE s2)

\* onEmail
HandleEmailNote(email) ==
    /\ Ready
    /\ Commit(EmailNote(
           [Cur EXCEPT !.lastCall = Called(Cur, "email", email, 0, NoRequest)],
           email))

\* onShare
HandleShareNote(email, outcome) ==
    /\ Ready
    /\ Commit(ShareNote(
           [Cur EXCEPT !.lastCall = Called(Cur, "share", email, 0, NoRequest)],
           email, outcome))

\* onDelete, with the persist effect of the render it causes
HandleDeleteSavedNote(id) ==
    /\ Ready
    /\ Commit(PersistNotes(DeleteSavedNote(
           [Cur EXCEPT !.lastCall = Called(Cur, "delete", NoEmail, id, NoRequest)],
           id)))

\* a visit in which the microphone, the session and the categorizer work:
\* what is dictated is not blank, and the answer is a category or not
NoteFragments == {<<"a">>}
NoteResponses == {Work, Junk}

NoteNext ==
    \/ LoadEffect
    \/ PersistEffect
    \/ HandleSaveNote
    \/ \E email \in Recipients : HandleEmailNote(email)
    \/ \E email \in Recipients, outcome \in ShareOutcomes :
           HandleShareNote(email, outcome)
    \/ \E id \in NoteIds : HandleDeleteSavedNote(id)
    \/ Ready /\ StartClick
    \/ Ready /\ StopClick
    \/ Ready /\ ResetCurrentNote
    \/ \E i \in Recs : Ready /\ MicGranted(i)
    \/ \E j \in Recs : Ready /\ SessionOpen(j)
    \/ \E j \in Recs : Ready /\ OnClose(j)
    \/ \E j \in Recs, text \in NoteFragments : Ready /\ Fragment(j, text)
    \/ \E k \in Recs : Ready /\ CtxClosed(k)
    \/ \E i \in Recs, r \in NoteResponses : Ready /\ CategorizeReturns(i, r)

NoteSpec == NoteInit /\ [][NoteNext]_vars

\* ---- createBlob on its own ----------------------------------------------
\* one call of createBlob, as onaudioprocess makes it
CreateBlobCall(data) ==
    Commit([Cur EXCEPT !.pcmBlob = [frame |-> data, data |-> CreateBlob(data)]])

BlobNext == \E data \in Frames : CreateBlobCall(data)

BlobSpec == Init /\ [][BlobNext]_vars

\* ---- SavedNotesList on its own ------------------------------------------
\* one render of SavedNotesList: null for an empty list
RenderSavedNotes(notes, engine) ==
    Commit([Cur EXCEPT !.sortedCategories =
        IF Len(notes) = 0
        THEN [engine |-> engine, notes |-> notes, sorted |-> <<>>]
        ELSE [engine |-> engine, notes |-> notes,
              sorted |-> SortKeys(GroupedKeys(notes), engine)]])

ListNext == \E notes \in NoteLists, engine \in Engines :
                RenderSavedNotes(notes, engine)

ListSpec == Init /\ [][ListNext]_vars

\* ---- the Onboarding component on its own ---------------------------------
\* onChange of the default email field, one more character typed
TypeEmail(c) ==
    /\ ~onboardingComplete
    /\ Len(form.defaultEmail) < MaxEmail
    /\ Commit([Cur EXCEPT !.form.defaultEmail = Append(@, c)])

\* onChange of the default email field, the last character deleted
EraseEmail ==
    /\ ~onboardingComplete
    /\ form.defaultEmail # <<>>
    /\ Commit([Cur EXCEPT !.form.defaultEmail =
                              SubSeq(@, 1, Len(@) - 1)])

\* handleCategoryToggle
HandleCategoryToggle(toggled) ==
    /\ ~onboardingComplete
    /\ form.variant = "select"
    /\ Commit([Cur EXCEPT !.form.selectedCategories =
          IF toggled \in Range(@)
          THEN SelectSeq(@, LAMBDA c : c # toggled)
          ELSE Append(@, toggled)])

\* the submit button of the form
HandleSubmit ==
    /\ ~onboardingComplete
    /\ Commit(Submit(Cur))

OnboardNext ==
    \/ \E c \in EmailChars : TypeEmail(c)
    \/ EraseEmail
    \/ \E toggled \in SelectableCategories : HandleCategoryToggle(toggled)
    \/ HandleSubmit

OnboardSpec == OnboardInit /\ [][OnboardNext]_vars

FnNext ==
    \/ \E text \in FnFragments : FragmentArrives(text)
    \/ \E response \in FnResponses : CategorizeCall(response)

FnSpec == FnInit /\ [][FnNext]_vars

TypeOK ==
    /\ appState \in AppStates
    /\ sessionPromiseRef \in Recs \cup {NoRef}
    /\ audioContextRef \in Recs \cup {NoRef}
    /\ scriptProcessorRef = mediaStreamSourceRef
    /\ Len(currentTranscription) <= MaxLen

\* ---- what the claims speak about -----------------------------------------
MicHeld(i) == stream[i] = "live"
ContextHeld(i) == ctx[i] = "running"
SessionHeld(i) == session[i] \in {"pending", "open"}

AnyResourceHeld == \E i \in Recs : MicHeld(i) \/ ContextHeld(i) \/ SessionHeld(i)
AllResourcesHeld ==
    /\ \E i \in Recs : MicHeld(i)
    /\ \E i \in Recs : ContextHeld(i)
    /\ \E i \in Recs : SessionHeld(i)

\* nothing is in flight: no promise is pending, no close is under way and no
\* handler is suspended on an await
Quiescent ==
    \A i \in Recs :
        /\ startPc[i] # "awaitMic"
        /\ session[i] \notin {"pending", "closing"}
        /\ ctx[i] # "closing"
        /\ stopPc[i] \notin {"awaitSession", "awaitAudioClose", "categorizing"}

\* stop i reaches "Process the transcribed text" in this step
Evaluates(i) ==
    /\ stopPc[i] \notin {"categorizing", "done"}
    /\ stopPc'[i] \in {"categorizing", "done"}

\* the transcript stop i works on: the value its click closed over
SnapshotOf(i) == IF stopPc[i] = "none" THEN currentTranscription ELSE stopSnap[i]

\* ---- C1 -----------------------------------------------------------------
\* C1: in every reachable state in which nothing is in flight (no
\* acquisition or release is under way) and no session has failed to open
\* (the subject of C15), the microphone stream, the
\* transcription session and the audio pipeline are all held when appState
\* is Recording and none of them is held otherwise.
C1_SessionIffRecording ==
    (Quiescent /\ \A i \in Recs : session[i] # "rejected") =>
        /\ appState = RECORDING => AllResourcesHeld
        /\ appState # RECORDING => ~AnyResourceHeld

\* ---- C2 -----------------------------------------------------------------
\* C2: at most one live transcription session is open at a time.
C2_AtMostOneSession ==
    Cardinality({j \in Recs : session[j] = "open"}) <= 1

\* ---- C3 -----------------------------------------------------------------
\* C3: once the recording has ended (the state is no longer Recording, or
\* the component is unmounted) and everything in flight has settled, no
\* microphone stream, audio context or session acquired by a start is still
\* held: each has been released on the way.
C3_ReleasedAfterEnd ==
    (Quiescent /\ (appState # RECORDING \/ unmounted))
        => ~AnyResourceHeld

\* ---- C4 -----------------------------------------------------------------
\* C4: every change of appState is a transition of the state table, with
\* the side effects that identify its trigger.  A stop that has nothing to
\* await goes Recording -> Processing -> Idle within its own click.
C4_Transition ==
    \/ /\ appState = IDLE /\ appState' = RECORDING
       /\ error' = NoError /\ currentNote' = <<>>
       /\ currentTranscription' = <<>>
    \/ /\ appState = RECORDING /\ appState' = PROCESSING
    \/ /\ appState = PROCESSING /\ appState' = REVIEW
       /\ currentNote' # <<>> /\ currentTranscription' = <<>>
    \/ /\ appState = PROCESSING /\ appState' = IDLE
       /\ currentNote' = currentNote /\ currentTranscription' = <<>>
       /\ error' \in {error, CategorizeError}
    \/ /\ appState = REVIEW /\ appState' = IDLE
       /\ currentNote' = <<>> /\ error' = error
    \/ /\ appState = RECORDING /\ appState' = IDLE
       /\ \/ error' \in {DictationError, MicError}
          \/ \E i \in Recs : stopPc[i] = "none" /\ stopPc'[i] = "done"

C4_OnlyTableTransitions == [][appState' # appState => C4_Transition]_vars

\* ---- C5 -----------------------------------------------------------------
\* C5: when a stop evaluates the transcript (and calls the categorizer), the
\* session of its recording has been closed, its audio pipeline has been
\* disconnected, and its audio context and microphone stream have been
\* released.
C5_ReleasedBeforeEvaluate ==
    [][\A i \in Recs : Evaluates(i) =>
          /\ session'[i] \notin {"pending", "open"}
          /\ pipe'[i] # "connected"
          /\ ctx'[i] \notin {"running", "closing"}
          /\ stream'[i] # "live"]_vars

\* ---- C6 -----------------------------------------------------------------
\* C6: when stop has been requested for the recording of every session that
\* is still open, no fragment is appended to the transcript buffer.
C6_StaleFragmentIgnored ==
    [][(\A j \in Recs : session[j] = "open" => stopPc[j] # "none")
          => Len(currentTranscription') <= Len(currentTranscription)]_vars

\* ---- C7 -----------------------------------------------------------------
\* C7: no stop is suspended on `await sessionPromiseRef.current` while the
\* session handle reference is still non-null.
C7_HandleNulledBeforeAwait ==
    \A i \in Recs : stopPc[i] = "awaitSession" => sessionPromiseRef = NoRef

\* ---- C8 -----------------------------------------------------------------
\* C8: no audio frame is transmitted on a session for which stop has begun.
\* (A call on a session that is already closing or closed transmits
\* nothing.)
C8_NoSendAfterStop == lastSend.state # "stopping"

\* ---- C9 -----------------------------------------------------------------
\* C9: while appState is Processing no start request takes effect: a click
\* on the disabled button changes nothing, and no step taken in Processing
\* begins a start or a stop.
C9_NoStartWhileProcessing ==
    [][/\ ignoredClick' # ignoredClick =>
             /\ appState = PROCESSING
             /\ UNCHANGED <<appState, currentTranscription, currentNote,
                            error, sessionPromiseRef, audioContextRef,
                            scriptProcessorRef, mediaStreamSourceRef,
                            startPc, stream, ctx, session, reactions,
                            pipe, pipeCtx, stopPc, stopSess, stopCtx,
                            stopSnap, lastSend, catCalled>>
       /\ appState = PROCESSING =>
             \A i \in Recs :
                 /\ startPc[i] = "none" => startPc'[i] = "none"
                 /\ stopPc[i] = "none" => stopPc'[i] = "none"]_vars

\* a click was ignored in Processing although a further start was possible
C9_Witness ==
    /\ ignoredClick
    /\ appState = PROCESSING
    /\ NumStarts(Cur) < MaxStarts

\* ---- C10 ----------------------------------------------------------------
\* C10: a stop whose transcript is empty or whitespace-only does not call
\* the categorizer, creates no draft, clears the buffer and sets the state
\* to Idle in the step in which it evaluates the transcript.
C10_EmptyTranscript ==
    [][\A i \in Recs :
          (Evaluates(i) /\ Trim(SnapshotOf(i)) = <<>>) =>
              /\ i \notin catCalled'
              /\ stopPc'[i] = "done"
              /\ currentNote' = currentNote
              /\ currentTranscription' = <<>>
              /\ appState' = IDLE]_vars

\* a stop with a whitespace-only transcript has completed in Idle
C10_Witness ==
    \E i \in Recs :
        /\ stopPc[i] = "done"
        /\ stopSnap[i] = <<" ">>
        /\ i \notin catCalled
        /\ session[i] = "closing"
        /\ appState = IDLE
        /\ currentTranscription = <<>>

\* ---- what the claims C11..C20 speak about -------------------------------
\* `await categorizeNote(...)` of stop i resolves in this step
CategorizerReturns(i) == stopPc[i] = "categorizing" /\ stopPc'[i] = "done"

\* stop i calls categorizeNote in this step and the call rejects at once
CategorizerRejects(i) ==
    /\ Evaluates(i)
    /\ i \in catCalled'
    /\ stopPc'[i] = "done"

\* the catch block of the start branch runs for start i in this step
MicRefused(i) == startPc[i] = "awaitMic" /\ startPc'[i] = "failed"

\* the cleanup function runs in this step
TearsDown == ~unmounted /\ unmounted'

\* the cleanup has queued session.close() on the pending promise of start j
TeardownQueued(j) ==
    \E n \in 1..Len(reactions[j]) : reactions[j][n].kind = "teardown"

\* t contains a period immediately followed by a space
HasPeriodSpace(t) ==
    \E n \in 1..(Len(t) - 1) : t[n] = "." /\ t[n + 1] = " "

\* ---- C11 ----------------------------------------------------------------
\* C11: when the categorizer returns category c for a stop, the transcript
\* of that stop is not blank, the draft becomes {text: that transcript,
\* category: c}, the transcript buffer is cleared and the state becomes
\* Review.
C11_SuccessDraft ==
    [][\A i \in Recs :
          CategorizerReturns(i) =>
              /\ Trim(stopSnap[i]) # <<>>
              /\ category' = CategorizeNote(settings, backendResponse')
              /\ currentNote' = <<[text |-> stopSnap[i],
                                   category |-> category']>>
              /\ currentTranscription' = <<>>
              /\ appState' = REVIEW]_vars

\* the categorizer answered with a configured category and the draft holds
\* the transcript with it
C11_Witness ==
    \E i \in Recs :
        /\ stopPc[i] = "done"
        /\ i \in catCalled
        /\ backendResponse = Work
        /\ currentNote = <<[text |-> <<"a">>, category |-> Work]>>
        /\ currentTranscription = <<>>
        /\ appState = REVIEW

\* ---- C12 ----------------------------------------------------------------
\* C12: when the call of the categorizer rejects, the step that handles it
\* sets the categorization error, sets the state to Idle, clears the
\* transcript buffer and leaves the draft as it was.
C12_CategorizerRejectionHandled ==
    [][\A i \in Recs :
          CategorizerRejects(i) =>
              /\ error' = CategorizeError
              /\ appState' = IDLE
              /\ currentTranscription' = <<>>
              /\ currentNote' = currentNote]_vars

\* a stop with a transcript called the categorizer without an API key
C12_Witness ==
    \E i \in Recs :
        /\ ~apiKey
        /\ stopPc[i] = "done"
        /\ i \in catCalled
        /\ stopSnap[i] = <<"a">>
        /\ error = CategorizeError
        /\ currentNote = <<>>
        /\ appState = IDLE

\* ---- C13 ----------------------------------------------------------------
\* C13: when the backend call of the categorizer fails, the step that
\* handles it sets the categorization error, sets the state to Idle, clears
\* the transcript buffer and creates no draft.
C13_BackendFailureToIdle ==
    [][\A i \in Recs :
          (CategorizerReturns(i) /\ backendResponse' = BackendFailure) =>
              /\ error' = CategorizeError
              /\ appState' = IDLE
              /\ currentTranscription' = <<>>
              /\ currentNote' = currentNote]_vars

\* ---- C14 ----------------------------------------------------------------
\* C14: whatever the backend answers and whatever the allowed list is, the
\* category categorizeNote returns, and the category of a draft, is a member
\* of the allowed list or the fallback category.
C14_CategoryAllowed ==
    /\ backendResponse # NoResponse =>
          category \in settings \cup {FallbackCategory}
    /\ currentNote # <<>> =>
          currentNote[1].category \in settings \cup {FallbackCategory}

\* the backend answered with a string that is neither in the list nor the
\* fallback, and the fallback, itself not in the list, was returned
C14_Witness ==
    /\ backendResponse = Junk
    /\ FallbackCategory \notin settings
    /\ category = FallbackCategory

\* ---- C15 ----------------------------------------------------------------
\* C15: when the session promise of a start rejects, the step that settles
\* it sets the error and sets the state to Idle.
C15_OpenFailureCaught ==
    [][\A j \in Recs :
          (session[j] = "pending" /\ session'[j] = "rejected") =>
              /\ error' # NoError
              /\ appState' = IDLE]_vars

\* ---- C16 ----------------------------------------------------------------
\* C16: when the microphone request of a start is refused, the start
\* creates no stream, no audio context and no session and leaves the refs
\* alone, the microphone error is set and the state becomes Idle; a refused
\* start never owns a context or a session afterwards.
C16_MicRefusedAborts ==
    /\ [](\A i \in Recs :
             startPc[i] = "failed" =>
                 /\ stream[i] = "none"
                 /\ ctx[i] = "none"
                 /\ session[i] = "none")
    /\ [][\A i \in Recs :
             MicRefused(i) =>
                 /\ error' = MicError
                 /\ appState' = IDLE
                 /\ UNCHANGED <<stream, ctx, session, sessionPromiseRef,
                                audioContextRef, scriptProcessorRef,
                                mediaStreamSourceRef>>]_vars

\* a start was refused and the state is Idle with the microphone error
C16_Witness ==
    \E i \in Recs :
        /\ startPc[i] = "failed"
        /\ ctx[i] = "none"
        /\ session[i] = "none"
        /\ error = MicError
        /\ appState = IDLE

\* ---- C17 ----------------------------------------------------------------
\* C17: when onerror reports a failure during Recording, at the end of that
\* step the state is Idle and the recording the refs point at is being
\* released: its session is no longer open, its audio nodes are
\* disconnected and its audio context is no longer running.
C17_ErrorReleases ==
    [][(appState = RECORDING /\ error # DictationError
            /\ error' = DictationError) =>
          /\ appState' = IDLE
          /\ \A j \in Recs :
                j = sessionPromiseRef =>
                    /\ session'[j] # "open"
                    /\ pipe'[j] # "connected"
                    /\ ctx'[j] # "running"]_vars

\* ---- C18 ----------------------------------------------------------------
\* C18: the cleanup changes nothing when there is neither a session promise
\* nor an audio context; otherwise the audio context of the ref is closing
\* or closed after it, an open session of the ref is closing after it, and
\* a pending session on which the cleanup queued its close is closing as
\* soon as its promise is fulfilled.
C18_Teardown ==
    [][/\ TearsDown =>
             /\ (sessionPromiseRef = NoRef /\ audioContextRef = NoRef) =>
                   UNCHANGED <<appState, currentTranscription, currentNote,
                               error, sessionPromiseRef, audioContextRef,
                               scriptProcessorRef, mediaStreamSourceRef,
                               startPc, stream, ctx, session, reactions,
                               pipe, pipeCtx, stopPc, stopSess, stopCtx,
                               stopSnap, lastSend, catCalled>>
             /\ audioContextRef # NoRef =>
                   ctx'[audioContextRef] \in {"closing", "closed"}
             /\ \A j \in Recs :
                   j = sessionPromiseRef =>
                       /\ session[j] = "open" => session'[j] = "closing"
                       /\ session[j] = "pending" =>
                             session'[j] = "pending" /\ TeardownQueued(j)'
       /\ \A j \in Recs :
             (TeardownQueued(j) /\ session[j] = "pending") =>
                 \/ session'[j] = "pending" /\ TeardownQueued(j)'
                 \/ session'[j] = "rejected"
                 \/ session'[j] = "closing" /\ j \in closedOnResolve']_vars

\* the cleanup ran while a session promise was pending, and that session
\* was closed when the promise was fulfilled
C18_Witness ==
    \E j \in Recs :
        /\ unmounted
        /\ j \in closedOnResolve
        /\ session[j] = "closing"
        /\ ctx[j] \in {"closing", "closed"}

\* ---- C19 ----------------------------------------------------------------
\* C19: after every run of the fragment handler the transcript buffer
\* contains no period immediately followed by a space.
C19_NoPeriodSpace == ~HasPeriodSpace(currentTranscription)

\* a period ended one fragment and the space began the next one
C19_Witness ==
    /\ newText = <<".", " ", "a">>
    /\ currentTranscription = <<".", "\n", "a">>

\* ---- C20 ----------------------------------------------------------------
\* C20: normalizing the buffer, which is normalized already, gives the
\* buffer back; normalizing twice gives what normalizing once gives; and a
\* text without a period followed by a space is left unchanged.
C20_Idempotent ==
    /\ Normalize(currentTranscription) = currentTranscription
    /\ Normalize(Normalize(newText)) = Normalize(newText)
    /\ ~HasPeriodSpace(newText) => currentTranscription = newText

\* a fragment was appended to a buffer that held a converted newline, and
\* the handler left the whole text unchanged
C20_Witness ==
    /\ newText = <<".", "\n", "a">>
    /\ currentTranscription = newText

\* ---- claims C21..C26: notes, sharing and the local store -----------------
\* a call of the share handler of either variant
ShareCall(email) ==
    \/ HandleEmailNote(email)
    \/ \E outcome \in ShareOutcomes : HandleShareNote(email, outcome)

\* no recipient, no native share, no default email
MissingConfiguration(email) ==
    email = NoEmail /\ ~nativeShare /\ defaultEmail = NoEmail

\* the text handleSaveNote would store for the draft of this state
WouldPersist == Head(SaveNote(Cur).savedNotes).text

\* the positions of the notes a delete of id keeps
Kept(id) == {n \in 1..Len(savedNotes) : savedNotes[n].id # id}

\* C21: a save with a draft puts exactly one note in front of the saved
\* notes; its id differs from every id already there, its emailSent is the
\* just-emailed flag of the moment before, its category is the draft's and
\* its text is the category, a colon, two line feeds and the draft's text.
\* A save without a draft changes nothing.
C21_SaveAddsOne ==
    [][HandleSaveNote =>
          IF currentNote # <<>>
          THEN /\ Len(savedNotes') = Len(savedNotes) + 1
               /\ Tail(savedNotes') = savedNotes
               /\ \A n \in 1..Len(savedNotes) :
                     savedNotes[n].id # Head(savedNotes').id
               /\ Head(savedNotes').emailSent = justEmailed
               /\ Head(savedNotes').category = currentNote[1].category
               /\ Head(savedNotes').text =
                     currentNote[1].category \o <<":", "\n", "\n">>
                         \o currentNote[1].text
          ELSE UNCHANGED <<appState, currentTranscription, currentNote,
                           error, savedNotes, justEmailed, uuidCount,
                           storedNotes, isInitialized>>]_vars

\* two notes were saved in this visit in front of a note of an earlier
\* visit, the later one after it had been shared
C21_Witness ==
    /\ lastCall.name = "save"
    /\ lastCall.draft # <<>>
    /\ Len(savedNotes) = 3
    /\ savedNotes[1].emailSent
    /\ ~savedNotes[2].emailSent
    /\ savedNotes[3] = StoredNote

\* C22: a delete removes exactly the notes that carry the id and keeps the
\* others in their order; when no note carries the id the saved notes stay
\* as they are.
C22_DeleteExactly ==
    [][\A id \in NoteIds :
          HandleDeleteSavedNote(id) =>
              /\ Len(savedNotes') = Cardinality(Kept(id))
              /\ \A n \in Kept(id) :
                    savedNotes'[Cardinality({m \in Kept(id) : m <= n})]
                        = savedNotes[n]
              /\ (Kept(id) = 1..Len(savedNotes)) =>
                    savedNotes' = savedNotes]_vars

\* the note saved first in this visit was deleted from between the note
\* saved after it and the note of an earlier visit
C22_Witness ==
    /\ lastCall.name = "delete"
    /\ lastCall.id = 1
    /\ Len(savedNotes) = 2
    /\ savedNotes[1].id = 2
    /\ savedNotes[2] = StoredNote

\* C23: a share call with a draft sets the just-emailed flag, whoever the
\* recipient and whatever the share sheet returns, except when there is no
\* recipient, no native share and no default email: then, and when there
\* is no draft, the flag stays as it was.
C23_ShareSetsFlag ==
    [][\A email \in Recipients :
          ShareCall(email) =>
              IF currentNote = <<>> \/ MissingConfiguration(email)
              THEN justEmailed' = justEmailed
              ELSE justEmailed']_vars

\* C24: a share call with a draft sends a mailto request to the recipient
\* if one is given; without one it uses the native share if there is one,
\* else sends a mailto request to the default email if there is one, else
\* reports the missing configuration and requests nothing. The subject is
\* "Note: " and the category, the body is the text a save would store.
C24_ShareChannel ==
    [][\A email \in Recipients :
          (ShareCall(email) /\ currentNote # <<>>) =>
              LET request == lastCall'.request
                  subject == <<"N", "o", "t", "e", ":", " ">>
                                 \o currentNote[1].category
                  MailTo(to) ==
                      /\ request.channel = "mailto"
                      /\ request.to = to
                      /\ DecodeURIComponent(request.subject) = subject
                      /\ DecodeURIComponent(request.body) = WouldPersist
              IN IF email # NoEmail THEN MailTo(email)
                 ELSE IF nativeShare
                 THEN /\ request.channel = "share"
                      /\ request.subject = subject
                      /\ request.body = WouldPersist
                 ELSE IF defaultEmail # NoEmail THEN MailTo(defaultEmail)
                 ELSE request.channel = "alert"]_vars

\* C25: from Review, a save and a discard (the reset) both lead to Idle
\* with no draft and with the just-emailed flag cleared.
C25_ReviewToIdle ==
    [][(appState = REVIEW /\ (HandleSaveNote \/ ResetCurrentNote)) =>
          /\ appState' = IDLE
          /\ currentNote' = <<>>
          /\ ~justEmailed']_vars

\* a draft that had been shared was saved, and the flag is cleared
C25_Witness ==
    /\ lastCall.name = "save"
    /\ lastCall.draft # <<>>
    /\ savedNotes # <<>>
    /\ Head(savedNotes).id = uuidCount
    /\ Head(savedNotes).emailSent
    /\ appState = IDLE
    /\ currentNote = <<>>
    /\ ~justEmailed

Decoded == Int16Of(Atob(pcmBlob.data))

Listed(c) == \E n \in 1..Len(categoryOrder) : categoryOrder[n] = c

\* the place of the first note of category c in the notes of the render
FirstMet(c) ==
    CHOOSE n \in 1..Len(sortedCategories.notes) :
        /\ sortedCategories.notes[n].category = c
        /\ \A m \in 1..(n - 1) : sortedCategories.notes[m].category # c

\* the place of category c in categoryOrder
Priority(c) == CHOOSE n \in 1..Len(categoryOrder) : categoryOrder[n] = c

\* C27: in the payload of a frame a sample of 1.0 is the 16-bit value
\* 32767, and a frame of zeros decodes to as many zeros.
C27_FullScaleAndSilence ==
    /\ Len(Decoded) = Len(pcmBlob.frame)
    /\ \A n \in 1..Len(pcmBlob.frame) :
          pcmBlob.frame[n] = FullScale => Decoded[n] = 32767
    /\ (\A n \in 1..Len(pcmBlob.frame) : pcmBlob.frame[n] = 0) =>
          \A n \in 1..Len(Decoded) : Decoded[n] = 0

\* C28: in the grouped list every category of categoryOrder comes before
\* every other category, the categories of categoryOrder come in its
\* order, and the others in the order in which the notes brought them up.
C28_GroupOrder ==
    LET sorted == sortedCategories.sorted
    IN \A a, b \in 1..Len(sorted) :
          a < b =>
              /\ ~(~Listed(sorted[a]) /\ Listed(sorted[b]))
              /\ (Listed(sorted[a]) /\ Listed(sorted[b])) =>
                    Priority(sorted[a]) < Priority(sorted[b])
              /\ (~Listed(sorted[a]) /\ ~Listed(sorted[b])) =>
                    FirstMet(sorted[a]) < FirstMet(sorted[b])

\* ---- claims C29, C30: start from Idle, stop on released refs ------------
\* the start branch of start i begins in this step
StartBegins(i) == startPc[i] = "none" /\ startPc'[i] # "none"

\* the stop branch of stop i has run to its end
StopDone(i) == stopPc[i] # "done" /\ stopPc'[i] = "done"

\* C29: a start from Idle leaves the state Recording, the transcript buffer
\* empty, no error and no draft, and the session of that start does not
\* exist yet, so none of its fragments has been handled.
C29_StartFromIdle ==
    [][\A i \in Recs :
          (appState = IDLE /\ StartBegins(i)) =>
              /\ appState' = RECORDING
              /\ currentTranscription' = <<>>
              /\ error' = NoError
              /\ currentNote' = <<>>
              /\ session'[i] = "none"]_vars

\* the second start was made from Idle with the error of the refused
\* microphone on display, and the error is gone
C29_Witness ==
    /\ startPc[1] = "failed"
    /\ startPc[2] = "awaitMic"
    /\ stopPc[1] = "none"
    /\ appState = RECORDING
    /\ error = NoError
    /\ currentTranscription = <<>>
    /\ currentNote = <<>>

\* C30: a stop throws only if the session promise it awaits is rejected,
\* never because a ref is null or its resource is already released: a stop
\* that finds no session promise does not throw, and every stop that runs
\* to its end leaves the state Idle or Review.
C30_StopOnReleasedRefs ==
    /\ [](\A i \in Recs :
             stopPc[i] = "threw" =>
                 /\ stopSess[i] # NoRef
                 /\ session[stopSess[i]] = "rejected")
    /\ [][\A i \in Recs :
             StopDone(i) => appState' \in {IDLE, REVIEW}]_vars

\* the second stop found no session promise and the nodes and the closed
\* context of the first recording in the refs, and ran to its end
C30_Witness ==
    /\ stopPc[1] = "done"
    /\ stopPc[2] = "done"
    /\ stopSess[2] = NoRef
    /\ startPc[2] = "awaitMic"
    /\ audioContextRef = 1
    /\ scriptProcessorRef = 1
    /\ ctx[1] = "closed"
    /\ appState = IDLE

\* ---- claim C31: onboarding -------------------------------------------------
\* a text with a character before an @, a character after it, then a period
\* and a character after that, and no white space anywhere
EmailShaped(text) ==
    /\ \A n \in 1..Len(text) : text[n] \notin {" ", "\n"}
    /\ \E i, j \in 1..Len(text) :
          /\ text[i] = "@"
          /\ text[j] = "."
          /\ 1 < i
          /\ i + 1 < j
          /\ j < Len(text)

\* the category list a submission of the form would hand over
Submitted ==
    IF form.variant = "select" THEN Range(form.selectedCategories)
    ELSE {Ideas, FollowUps, ToDo, FallbackCategory}

\* C31: a submission either completes the onboarding, and then the email
\* of the form is email-shaped, the categories handed over are not empty
\* and both are in the settings and in the store with onboardingComplete
\* true, or it leaves the settings and the store as they were with
\* onboardingComplete false; nothing else completes the onboarding.
C31_OnboardingValidates ==
    /\ [][HandleSubmit =>
             IF EmailShaped(form.defaultEmail) /\ Submitted # {}
             THEN /\ onboardingComplete'
                  /\ defaultEmail' = form.defaultEmail
                  /\ settings' = Submitted
                  /\ storedSettings'.kind = "json"
                  /\ storedSettings'.onboardingComplete
                  /\ storedSettings'.defaultEmail = form.defaultEmail
                  /\ storedSettings'.categories = Submitted
             ELSE /\ ~onboardingComplete'
                  /\ UNCHANGED <<settings, defaultEmail, storedSettings>>]_vars
    /\ [](onboardingComplete => (EmailShaped(defaultEmail) /\ settings # {}))

\* the form of the variant with a selection was completed with an email of
\* the shortest shape there is and with two categories
C31_Witness ==
    /\ onboardingComplete
    /\ form.variant = "select"
    /\ Len(defaultEmail) = 5
    /\ settings = {Work, Ideas}
    /\ storedSettings.kind = "json"
    /\ form.error = NoFormError

\* ---- claims C32..C34: the draft, the flag and the buffer ------------------
\* C32: there is a draft only in Review, and every saved note is one that a
\* save made (it carries an id that a save handed out) or one that the
\* store held when the visit began.
C32_DraftOnlyInReview ==
    /\ currentNote # <<>> => appState = REVIEW
    /\ \A n \in 1..Len(savedNotes) :
          \/ savedNotes[n].id \in 1..uuidCount
          \/ savedNotes[n] = StoredNote

\* C33: the flag that a save copies into emailSent stems from an email of
\* the draft that is saved: it rises only in an email step taken on a draft,
\* and a step that begins a draft leaves it down.
C33_FlagOfThisDraft ==
    [][/\ (~justEmailed /\ justEmailed') =>
              /\ currentNote # <<>>
              /\ currentNote' = currentNote
              /\ \/ \E email \in Recipients : HandleEmailNote(email)
                 \/ \E email \in Recipients, outcome \in ShareOutcomes :
                        HandleShareNote(email, outcome)
       /\ (currentNote = <<>> /\ currentNote' # <<>>) => ~justEmailed']_vars

\* C34: the transcript buffer is empty whenever the state is Idle or Review.
C34_BufferEmptyAtRest ==
    appState \in {IDLE, REVIEW} => currentTranscription = <<>>

\* ---- claim C35: a stop comes to an end ------------------------------------
\* C35: when every awaited operation settles, Processing is always followed
\* by Idle or Review.
C35_ProcessingEnds ==
    (appState = PROCESSING) ~> (appState \in {IDLE, REVIEW})

\* ---- claims C36, C37: starts and stops that overlap -----------------------
\* C36: the continuation of a start that runs when the state is no longer
\* Recording creates no audio context and opens no session.
C36_NoSessionAfterStop ==
    [][\A i \in Recs :
          (MicGranted(i) /\ appState # RECORDING) =>
              /\ ctx'[i] = "none"
              /\ session'[i] = "none"]_vars

\* the start that began last: the recording the buffer belongs to
LatestStart ==
    CHOOSE i \in Recs \cup {NoRef} :
        /\ i # NoRef => startPc[i] # "none"
        /\ \A k \in Recs : startPc[k] # "none" => k <= i

\* C37: a fragment that enters the buffer was delivered by the session of
\* the start that began last, and a frame is sent (or queued) on the session
\* of the start whose pipeline captured it.
C37_OwnSessionOnly ==
    [][/\ \A j \in Recs, text \in Fragments :
             Fragment(j, text) => j = LatestStart
       /\ \A p \in Recs :
             AudioProcess(p) => sessionPromiseRef = p]_vars

\* ---- claim C38: the buffer and the fragments ------------------------------
\* a text with every period-space turned into period-newline and nothing
\* else changed
PeriodSpaceToNewline(raw) ==
    IF raw = <<>> THEN <<>>
    ELSE [n \in 1..Len(raw) |->
            IF n > 1 /\ raw[n] = " " /\ raw[n - 1] = "." THEN "\n"
            ELSE raw[n]]

\* C38: after the fragments f1..fn the buffer is f1 + ... + fn with every
\* period-space turned into period-newline and nothing else changed, which
\* is also what one replace over the whole concatenation gives.
C38_BufferIsNormalizedConcat ==
    /\ currentTranscription = PeriodSpaceToNewline(received)
    /\ currentTranscription = Normalize(received)

\* "." came first and " a" next: the period and the space met in the buffer
C38_Witness ==
    /\ received = <<".", " ", "a">>
    /\ newText = received
    /\ currentTranscription = <<".", "\n", "a">>

\* ---- claim C39: the saved notes change by save and delete only ------------
\* the saved notes of the visit: what the store holds until the load effect
\* has read it, the savedNotes state from then on
SavedSequence ==
    IF isInitialized THEN savedNotes
    ELSE IF storedNotes = Absent THEN <<>> ELSE Parse(storedNotes)

\* C39: the saved notes change only in a step of the save handler, which
\* puts one note before the others, and in a step of the delete handler,
\* which drops the notes with the given id; the notes that stay keep their
\* fields and their order.
C39_OnlySaveAndDelete ==
    [][SavedSequence' # SavedSequence =>
          \/ /\ HandleSaveNote
             /\ Len(savedNotes') = Len(savedNotes) + 1
             /\ Tail(savedNotes') = savedNotes
          \/ \E id \in NoteIds :
                /\ HandleDeleteSavedNote(id)
                /\ savedNotes' =
                       SelectSeq(savedNotes, LAMBDA note : note.id # id)]_vars

\* the store held a note, a first note was saved and deleted again, and a
\* second note, which was emailed, stands before the stored one
C39_Witness ==
    /\ Len(savedNotes) = 2
    /\ savedNotes[1].id = 2
    /\ savedNotes[1].emailSent
    /\ savedNotes[2] = StoredNote
    /\ lastCall.name = "save"

====
